---- MODULE Spec2Model ----
(***************************************************************************)
(* Model of the fixed-step simulation of src/main.go (the variant with the *)
(* game-over screen, lines 410-919): Timer, Rect, Player, Meteor, Bullet   *)
(* and Game.Update / Game.Reset.                                           *)
(*                                                                         *)
(* Numbers.  The source computes in float64.  The model uses integers:     *)
(*   - lengths and speeds are in hundredths of a pixel (Px(1) = 100), so   *)
(*     that the difficulty factors 1.05, 1.08, 1.10 and 1.12 are exact;    *)
(*   - player rotation is in hundredths of baseRotSpeed (= pi / TPS), so a *)
(*     half turn is 100 * TPS;                                             *)
(*   - meteor rotation is in units of 0.0001 rad;                          *)
(*   - durations are in nanoseconds, as time.Duration is;                  *)
(*   - math.Sin / math.Cos are rounded to the nearest quarter turn.        *)
(* ebiten.TPS(), the sprite sizes (asset data) and the random draws of     *)
(* NewMeteor are not fixed by the source; they are parameters here.        *)
(***************************************************************************)
EXTENDS Integers, Sequences, FiniteSets, TLC

VARIABLES
    player,            \* g.player: position, rotation, shootCooldown, base*
    meteorSpawnTimer,  \* g.meteorSpawnTimer
    meteors,           \* g.meteors, in insertion order
    bullets,           \* g.bullets, in insertion order
    score,             \* g.score
    difficultyLevel,   \* g.difficultyLevel
    isGameOver,        \* g.isGameOver
    rainbowHue,        \* g.rainbowHue, as the number of 0.01 steps taken
    lastOp,            \* which operation ran last ("new" before any)
    playTicks,         \* history: Playing ticks since NewGame / Reset
    spawned,           \* history: meteors appended since NewGame / Reset
    lastSpawn,         \* history: playTicks at the latest append (0: none)
    gaps,              \* history: <<level, ticks>> for each append after the
                       \*   first: the difficulty level of its tick and the
                       \*   Playing ticks since the append before it
    atCollision,       \* history: g.meteors and g.bullets as the collision
                       \*   pass of the latest Playing tick found them
    timer,             \* a Timer on its own (timer specification)
    updates,           \* history: Update() calls on it since start / Reset()
    fireLog,           \* history (firing and level specifications): the
                       \*   keys held in the latest tick, the number of the
                       \*   tick of the player's latest shot (0: none), and
                       \*   the number of shots since the game was built
                       \*   or reset
    rotation64         \* p.rotation as the float64 the code holds (key
                       \*   specification): sign and magnitude in units of
                       \*   2^-57 radians

vars == <<player, meteorSpawnTimer, meteors, bullets, score, difficultyLevel,
          isGameOver, rainbowHue, lastOp, playTicks, spawned, lastSpawn, gaps,
          atCollision, timer, updates, fireLog, rotation64>>

gameVars == <<player, meteorSpawnTimer, meteors, bullets, score,
              difficultyLevel, isGameOver, rainbowHue, playTicks, spawned,
              lastSpawn, gaps, atCollision, fireLog, rotation64>>

-----------------------------------------------------------------------------
(* Parameters and bounds *)

\* ebiten.TPS(): ticks per second of the tick source.
TPS == 7

\* Caps of the model's runs (guards on the state a tick produces).
MaxMeteors == 2
MaxBullets == 2
MaxScore == 2
MaxRunScore == 11
\* How far (in pixels) the player may travel from its start, and a bullet
\* from the screen centre, on either axis.
PlayerRange == 2
BulletRange == 45
\* Cap of |rotation|, in player ticks of turning at difficulty 0.
MaxTurn == 2
\* Timer specification: durations are multiples of 0.1 s up to MaxTenths,
\* and at most MaxUpdates calls of Update() are counted.
MaxTenths == 14
MaxUpdates == 12
\* At most MaxHue game-over ticks in a row are followed.
MaxHue == 1
\* Level specification: games that have reached difficulty levels up to
\* MaxLevel, followed for MaxSteps calls of Player.Update.
MaxLevel == 36
MaxSteps == 2

ScreenWidth == 800
ScreenHeight == 600

Px(n) == 100 * n

\* Asset data: Bounds().Dx() and Bounds().Dy() of the sprites, in pixels.
PlayerSprite == [Dx |-> 2, Dy |-> 2]
MeteorSprite == [Dx |-> 395, Dy |-> 395]
BulletSprite == [Dx |-> 5, Dy |-> 5]

-----------------------------------------------------------------------------
(* Vector *)

Vec(x, y) == [X |-> x, Y |-> y]

Sign(n) == IF n > 0 THEN 1 ELSE IF n < 0 THEN -1 ELSE 0

\* Vector.Normalize for the vectors the model draws (one component zero):
\* the zero vector stays zero, any other becomes the unit vector.
Normalize(v) == Vec(Sign(v.X), Sign(v.Y))

-----------------------------------------------------------------------------
(* Timer *)

\* The ticks of a duration rounded to the nearest integer, halves up,
\* in place of int()'s truncation.
TicksAtRound(ns, tps) ==
    LET sec == ns \div 1000000000
        nsec == ns % 1000000000
        hi == nsec \div 100000
        lo == nsec % 100000
    IN  sec * tps + ((hi * tps + (lo * tps) \div 100000 + 5000) \div 10000)

\* int(d.Seconds() * float64(tps)) for a duration d of ns nanoseconds:
\* Seconds() is sec + nsec / 1e9, and int() truncates.
TicksAt(ns, tps) ==
    LET sec == ns \div 1000000000
        nsec == ns % 1000000000
        hi == nsec \div 100000
        lo == nsec % 100000
    IN  sec * tps + ((hi * tps + (lo * tps) \div 100000) \div 10000)

\* The ticks of a duration at the model's rate, rounded.
TicksOfRound(ns) == TicksAtRound(ns, TPS)

TicksOf(ns) == TicksAt(ns, TPS)

\* NewTimer with the timer already run out.
NewTimerElapsed(ns) == [currentTicks |-> TicksOf(ns), targetTicks |-> TicksOf(ns)]

NewTimer(ns) == [currentTicks |-> 0, targetTicks |-> TicksOf(ns)]

\* Timer.Update without the currentTicks < targetTicks test.
TimerUpdateUnbounded(t) == [t EXCEPT !.currentTicks = @ + 1]

TimerUpdate(t) ==
    IF t.currentTicks < t.targetTicks
    THEN [t EXCEPT !.currentTicks = @ + 1]
    ELSE t

\* IsReady with > in place of >=.
IsPast(t) == t.currentTicks > t.targetTicks

IsReady(t) == t.currentTicks >= t.targetTicks

\* Timer.Reset that leaves currentTicks alone.
TimerKeep(t) == t

TimerReset(t) == [t EXCEPT !.currentTicks = 0]

-----------------------------------------------------------------------------
(* Rect *)

NewRect(x, y, w, h) == [X |-> x, Y |-> y, Width |-> w, Height |-> h]
MaxX(r) == r.X + r.Width
MaxY(r) == r.Y + r.Height

\* Intersects with the closed comparisons made strict: boxes that only share
\* an edge or a corner no longer intersect.
IntersectsStrict(r, o) ==
    r.X < MaxX(o) /\ o.X < MaxX(r) /\ r.Y < MaxY(o) /\ o.Y < MaxY(r)

Intersects(r, o) ==
    /\ r.X <= MaxX(o)
    /\ o.X <= MaxX(r)
    /\ r.Y <= MaxY(o)
    /\ o.Y <= MaxY(r)

-----------------------------------------------------------------------------
(* Bullet *)

HalfTurn == 100 * TPS

\* The quarter turn nearest to rotation rot, 0..3 (0 = up, 1 = right).
Quarter(rot) == ((2 * rot + HalfTurn \div 2) \div HalfTurn) % 4

Sin(rot) == CASE Quarter(rot) = 1 -> 1 [] Quarter(rot) = 3 -> -1 [] OTHER -> 0
Cos(rot) == CASE Quarter(rot) = 0 -> 1 [] Quarter(rot) = 2 -> -1 [] OTHER -> 0

BulletVel == 500

NewBullet(pos, rot) ==
    [position |-> pos,
     movement |-> Vec(Sin(rot) * BulletVel, -(Cos(rot) * BulletVel))]

BulletUpdate(b) ==
    [b EXCEPT !.position = Vec(b.position.X + b.movement.X,
                               b.position.Y + b.movement.Y)]

BulletCollider(b) ==
    NewRect(b.position.X, b.position.Y, Px(BulletSprite.Dx), Px(BulletSprite.Dy))

-----------------------------------------------------------------------------
(* Meteor *)

\* The random draws of one NewMeteor call: the angle (as its cosine and
\* sine), baseVel = 0.3 + rand * 0.7 in hundredths of a pixel per tick, and
\* the base spin -0.02 + rand * 0.04 in units of 0.0001 rad per tick.
MeteorDraws ==
    { [cos |-> 0, sin |-> -1, baseVel |-> 50, spin |-> 100],
      [cos |-> 0, sin |-> -1, baseVel |-> 75, spin |-> -100],
      [cos |-> -1, sin |-> 0, baseVel |-> 75, spin |-> -100] }

\* NewMeteor without the difficulty factors on speed and spin.
NewMeteorFlat(difficulty, draw) ==
    LET r == Px(ScreenWidth) \div 2
        x == Px(ScreenWidth \div 2) + draw.cos * r
        y == Px(ScreenHeight \div 2) + draw.sin * r
        dir == Normalize(Vec(Px(ScreenWidth \div 2) - x, Px(ScreenHeight \div 2) - y))
    IN  [position |-> Vec(x, y),
         movement |-> Vec(dir.X * draw.baseVel, dir.Y * draw.baseVel),
         rotation |-> 0,
         rotationSpeed |-> draw.spin]

NewMeteor(difficulty, draw) ==
    LET r == Px(ScreenWidth) \div 2
        x == Px(ScreenWidth \div 2) + draw.cos * r
        y == Px(ScreenHeight \div 2) + draw.sin * r
        dir == Normalize(Vec(Px(ScreenWidth \div 2) - x,
                             Px(ScreenHeight \div 2) - y))
        vel == (draw.baseVel * (100 + 12 * difficulty)) \div 100
    IN  [position |-> Vec(x, y),
         movement |-> Vec(dir.X * vel, dir.Y * vel),
         rotation |-> 0,
         rotationSpeed |-> (draw.spin * (100 + 10 * difficulty)) \div 100]

MeteorUpdate(m) ==
    [m EXCEPT !.position = Vec(m.position.X + m.movement.X,
                               m.position.Y + m.movement.Y),
              !.rotation = @ + m.rotationSpeed]

MeteorCollider(m) ==
    NewRect(m.position.X, m.position.Y, Px(MeteorSprite.Dx), Px(MeteorSprite.Dy))

-----------------------------------------------------------------------------
(* Player *)

BaseCooldown == 300000000

\* 300000000 as base-100 digits, least significant first.
BaseCooldownDigits == <<0, 0, 0, 0, 3>>

RECURSIVE MulDigits(_, _, _)
\* The base-100 digits of ds * k + carry.
MulDigits(ds, k, carry) ==
    IF ds = <<>>
    THEN IF carry = 0 THEN <<>> ELSE <<carry % 100>> \o MulDigits(<<>>, k, carry \div 100)
    ELSE LET v == Head(ds) * k + carry
         IN  <<v % 100>> \o MulDigits(Tail(ds), k, v \div 100)

RECURSIVE DigitsValue(_)
DigitsValue(ds) ==
    IF ds = <<>> THEN 0 ELSE Head(ds) + 100 * DigitsValue(Tail(ds))

RECURSIVE Pow92Digits(_)
\* The base-100 digits of 300000000 * 92^d.
Pow92Digits(d) ==
    IF d = 0 THEN BaseCooldownDigits ELSE MulDigits(Pow92Digits(d - 1), 92, 0)

\* time.Duration(float64(baseCooldown) * math.Pow(0.92, float64(difficulty))):
\* 300000000 * 92^d / 100^d, truncated to whole nanoseconds.
Cooldown(difficulty) ==
    IF difficulty > 0
    THEN LET ds == Pow92Digits(difficulty)
         IN  DigitsValue(SubSeq(ds, difficulty + 1, Len(ds)))
    ELSE BaseCooldown

PlayerStart ==
    Vec(Px(ScreenWidth \div 2) - Px(PlayerSprite.Dx) \div 2,
        Px(ScreenHeight \div 2) - Px(PlayerSprite.Dy) \div 2)

NewPlayer(difficulty) ==
    [position |-> PlayerStart,
     rotation |-> 0,
     shootCooldown |-> NewTimer(Cooldown(difficulty)),
     baseRotSpeed |-> 100,
     baseCooldown |-> BaseCooldown]

\* The keys Player.Update and Game.Update poll in one tick.
Keys == [Left : BOOLEAN, Right : BOOLEAN, Up : BOOLEAN, Down : BOOLEAN,
         Space : BOOLEAN]

\* Player.Update that fires whenever Space is held, ready or not.
PlayerUpdateNoCooldown(p, difficulty, keys) ==
    LET rotSpeed == (p.baseRotSpeed * (100 + 8 * difficulty)) \div 100
        rot1 == IF keys.Left THEN p.rotation - rotSpeed ELSE p.rotation
        rot2 == IF keys.Right THEN rot1 + rotSpeed ELSE rot1
        speed == (200 * (100 + 5 * difficulty)) \div 100
        pos1 == IF keys.Up
                THEN Vec(p.position.X + Sin(rot2) * speed,
                         p.position.Y - Cos(rot2) * speed)
                ELSE p.position
        pos2 == IF keys.Down
                THEN Vec(pos1.X - Sin(rot2) * speed, pos1.Y + Cos(rot2) * speed)
                ELSE pos1
        newCooldown == IF difficulty > 0 THEN Cooldown(difficulty)
                       ELSE p.baseCooldown
        t1 == [p.shootCooldown EXCEPT !.targetTicks = TicksOf(newCooldown)]
        t2 == TimerUpdate(t1)
        fire == keys.Space
        offset == 3000
        spawn == Vec(pos2.X + Px(PlayerSprite.Dx) \div 2 + Sin(rot2) * offset,
                     pos2.Y + Px(PlayerSprite.Dy) \div 2 - Cos(rot2) * offset)
    IN  [player |-> [p EXCEPT !.rotation = rot2, !.position = pos2,
                              !.shootCooldown = IF fire THEN TimerReset(t2) ELSE t2],
         fired |-> IF fire THEN <<NewBullet(spawn, rot2)>> ELSE <<>>]

\* Player.Update: the player after the tick and the bullets it hands to
\* Game.AddBullet (none or one).
PlayerUpdate(p, difficulty, keys) ==
    LET rotSpeed == (p.baseRotSpeed * (100 + 8 * difficulty)) \div 100
        rot1 == IF keys.Left THEN p.rotation - rotSpeed ELSE p.rotation
        rot2 == IF keys.Right THEN rot1 + rotSpeed ELSE rot1
        speed == (200 * (100 + 5 * difficulty)) \div 100
        pos1 == IF keys.Up
                THEN Vec(p.position.X + Sin(rot2) * speed,
                         p.position.Y - Cos(rot2) * speed)
                ELSE p.position
        pos2 == IF keys.Down
                THEN Vec(pos1.X - Sin(rot2) * speed, pos1.Y + Cos(rot2) * speed)
                ELSE pos1
        newCooldown == IF difficulty > 0 THEN Cooldown(difficulty)
                       ELSE p.baseCooldown
        t1 == [p.shootCooldown EXCEPT !.targetTicks = TicksOf(newCooldown)]
        t2 == TimerUpdate(t1)
        fire == IsReady(t2) /\ keys.Space
        offset == 3000
        spawn == Vec(pos2.X + Px(PlayerSprite.Dx) \div 2 + Sin(rot2) * offset,
                     pos2.Y + Px(PlayerSprite.Dy) \div 2 - Cos(rot2) * offset)
    IN  [player |-> [p EXCEPT !.rotation = rot2, !.position = pos2,
                              !.shootCooldown = IF fire THEN TimerReset(t2) ELSE t2],
         fired |-> IF fire THEN <<NewBullet(spawn, rot2)>> ELSE <<>>]

PlayerCollider(p) ==
    NewRect(p.position.X, p.position.Y, Px(PlayerSprite.Dx), Px(PlayerSprite.Dy))

-----------------------------------------------------------------------------
(* Game *)

SpawnInterval == 1000000000

\* Removal by moving the last element into the gap: the remaining elements
\* do not keep their order.
RemoveAtSwap(s, i) ==
    IF i = Len(s) THEN SubSeq(s, 1, i - 1)
    ELSE [k \in 1..(Len(s) - 1) |-> IF k = i THEN s[Len(s)] ELSE s[k]]

RemoveAt(s, i) == SubSeq(s, 1, i - 1) \o SubSeq(s, i + 1, Len(s))

\* for _, m := range g.meteors { m.Update() }
UpdateMeteors(ms) == [i \in 1..Len(ms) |-> MeteorUpdate(ms[i])]

\* The screen, as a box.
Screen == NewRect(0, 0, Px(ScreenWidth), Px(ScreenHeight))

OnScreen(b) == Intersects(BulletCollider(b), Screen)

\* UpdateBullets dropping the bullets that have left the screen.
UpdateBulletsOnScreen(bs) ==
    SelectSeq([i \in 1..Len(bs) |-> BulletUpdate(bs[i])], OnScreen)

\* for _, b := range g.bullets { b.Update() }
UpdateBullets(bs) == [i \in 1..Len(bs) |-> BulletUpdate(bs[i])]

\* FirstHit scanning the bullets in insertion order: the least index.
FirstHitForward(m, bs, j) ==
    LET hits == {k \in 1..j : Intersects(MeteorCollider(m), BulletCollider(bs[k]))}
    IN  IF hits = {} THEN 0 ELSE CHOOSE k \in hits : \A h \in hits : k <= h

RECURSIVE FirstHit(_, _, _)
\* The inner loop of the collision pass: the greatest index j' <= j of a
\* bullet whose collider intersects meteor m's, or 0 when there is none.
FirstHit(m, bs, j) ==
    IF j < 1 THEN 0
    ELSE IF Intersects(MeteorCollider(m), BulletCollider(bs[j])) THEN j
    ELSE FirstHit(m, bs, j - 1)

\* CraftHit as the earlier variant of Game.Update has it (lines 186-191):
\* the collision clears the score.
CraftHitZero(ms, bs, sc) ==
    [meteors |-> ms, bullets |-> bs, score |-> 0, isGameOver |-> TRUE]

\* A meteor intersects the player: g.isGameOver = true; return nil.
CraftHit(ms, bs, sc) ==
    [meteors |-> ms, bullets |-> bs, score |-> sc, isGameOver |-> TRUE]

\* Collide with the two tests of an obstacle in the other order: projectiles
\* first, the craft second.
RECURSIVE CollideBulletFirst(_, _, _, _, _)
CollideBulletFirst(i, p, ms, bs, sc) ==
    IF i < 1
    THEN [meteors |-> ms, bullets |-> bs, score |-> sc, isGameOver |-> FALSE]
    ELSE LET j == FirstHit(ms[i], bs, Len(bs))
         IN  IF j > 0
             THEN CollideBulletFirst(i - 1, p, RemoveAt(ms, i), RemoveAt(bs, j), sc + 1)
             ELSE IF Intersects(MeteorCollider(ms[i]), PlayerCollider(p))
                  THEN CraftHit(ms, bs, sc)
                  ELSE CollideBulletFirst(i - 1, p, ms, bs, sc)

\* Collide with bullets that go through: an obstacle that touches a bullet is
\* removed and scores, and the bullet stays for the obstacles still to come.
RECURSIVE CollidePiercing(_, _, _, _, _)
CollidePiercing(i, p, ms, bs, sc) ==
    IF i < 1
    THEN [meteors |-> ms, bullets |-> bs, score |-> sc, isGameOver |-> FALSE]
    ELSE IF Intersects(MeteorCollider(ms[i]), PlayerCollider(p))
    THEN CraftHit(ms, bs, sc)
    ELSE LET j == FirstHit(ms[i], bs, Len(bs))
         IN  IF j = 0
             THEN CollidePiercing(i - 1, p, ms, bs, sc)
             ELSE CollidePiercing(i - 1, p, RemoveAt(ms, i), bs, sc + 1)

\* Collide without the return on a craft collision: the game is over, and
\* the obstacles inserted before the colliding one are processed all the same.
RECURSIVE CollideThrough(_, _, _, _, _)
CollideThrough(i, p, ms, bs, sc) ==
    IF i < 1
    THEN [meteors |-> ms, bullets |-> bs, score |-> sc, isGameOver |-> FALSE]
    ELSE IF Intersects(MeteorCollider(ms[i]), PlayerCollider(p))
    THEN [CollideThrough(i - 1, p, ms, bs, sc) EXCEPT !.isGameOver = TRUE]
    ELSE LET j == FirstHit(ms[i], bs, Len(bs))
         IN  IF j = 0
             THEN CollideThrough(i - 1, p, ms, bs, sc)
             ELSE CollideThrough(i - 1, p, RemoveAt(ms, i), RemoveAt(bs, j), sc + 1)

RECURSIVE Collide(_, _, _, _, _)
\* The collision pass from meteor index i downwards, for player p.
Collide(i, p, ms, bs, sc) ==
    IF i < 1
    THEN [meteors |-> ms, bullets |-> bs, score |-> sc, isGameOver |-> FALSE]
    ELSE IF Intersects(MeteorCollider(ms[i]), PlayerCollider(p))
    THEN CraftHit(ms, bs, sc)
    ELSE LET j == FirstHit(ms[i], bs, Len(bs))
         IN  IF j = 0
             THEN Collide(i - 1, p, ms, bs, sc)
             ELSE Collide(i - 1, p, RemoveAt(ms, i), RemoveAt(bs, j), sc + 1)

\* One indexed access of the collision loop: op says what is done ("meteor"
\* and "bullet" read an element, "cut meteor" and "cut bullet" remove one),
\* index is the index used, counted from 0 as the code does, len the length
\* of the slice at that moment, and object the element the index names
\* (<<>> when it names none).
Access(op, index, s) ==
    [op |-> op, index |-> index, len |-> Len(s),
     object |-> IF 0 <= index /\ index < Len(s) THEN <<s[index + 1]>> ELSE <<>>]

RECURSIVE Scan(_, _, _, _)
\* The inner loop from bullet index j (from 0) downwards, with the accesses
\* it makes appended to log: hit is the index of the bullet it breaks on, or
\* -1 when it runs out.
Scan(m, bs, j, log) ==
    IF j < 0 THEN [hit |-> -1, log |-> log]
    ELSE LET read == Append(log, Access("bullet", j, bs))
         IN  IF j >= Len(bs) THEN [hit |-> -1, log |-> read]
             ELSE IF Intersects(MeteorCollider(m), BulletCollider(bs[j + 1]))
                  THEN [hit |-> j, log |-> read]
                  ELSE Scan(m, bs, j - 1, read)

\* Walk continuing at the same index after a removal, not at the one below.
RECURSIVE WalkStaying(_, _, _, _, _)
WalkStaying(i, p, ms, bs, log) ==
    IF i < 0
    THEN [meteors |-> ms, bullets |-> bs, isGameOver |-> FALSE, log |-> log]
    ELSE LET read == Append(log, Access("meteor", i, ms))
         IN  IF i >= Len(ms)
             THEN [meteors |-> ms, bullets |-> bs, isGameOver |-> FALSE, log |-> read]
             ELSE IF Intersects(MeteorCollider(ms[i + 1]), PlayerCollider(p))
             THEN [meteors |-> ms, bullets |-> bs, isGameOver |-> TRUE, log |-> read]
             ELSE LET in == Scan(ms[i + 1], bs, Len(bs) - 1, read)
                  IN  IF in.hit < 0
                      THEN WalkStaying(i - 1, p, ms, bs, in.log)
                      ELSE WalkStaying(i, p, RemoveAt(ms, i + 1), RemoveAt(bs, in.hit + 1),
                                       in.log \o <<Access("cut meteor", i, ms),
                                                   Access("cut bullet", in.hit, bs)>>)

RECURSIVE Walk(_, _, _, _, _)
\* The collision loop from meteor index i (from 0) downwards, index by
\* index, with every access it makes appended to log.  An index outside its
\* slice ends the walk where the code would panic.
Walk(i, p, ms, bs, log) ==
    IF i < 0
    THEN [meteors |-> ms, bullets |-> bs, isGameOver |-> FALSE, log |-> log]
    ELSE LET read == Append(log, Access("meteor", i, ms))
         IN  IF i >= Len(ms)
             THEN [meteors |-> ms, bullets |-> bs, isGameOver |-> FALSE, log |-> read]
             ELSE IF Intersects(MeteorCollider(ms[i + 1]), PlayerCollider(p))
             THEN [meteors |-> ms, bullets |-> bs, isGameOver |-> TRUE, log |-> read]
             ELSE LET in == Scan(ms[i + 1], bs, Len(bs) - 1, read)
                  IN  IF in.hit < 0
                      THEN Walk(i - 1, p, ms, bs, in.log)
                      ELSE Walk(i - 1, p, RemoveAt(ms, i + 1), RemoveAt(bs, in.hit + 1),
                                in.log \o <<Access("cut meteor", i, ms),
                                            Access("cut bullet", in.hit, bs)>>)

\* The state Game.Reset leaves (and, with the spawn timer built by
\* NewTimer, the state NewGame builds).
Fresh(spawnTimer) ==
    [player |-> NewPlayer(0),
     meteors |-> <<>>,
     bullets |-> <<>>,
     meteorSpawnTimer |-> TimerReset(spawnTimer),
     score |-> 0,
     difficultyLevel |-> 0,
     isGameOver |-> FALSE,
     rainbowHue |-> 0]

NewGame == Fresh(NewTimer(SpawnInterval))

\* Reset without g.bullets = g.bullets[:0].
ResetKeepingBullets ==
    LET f == Fresh(meteorSpawnTimer)
    IN  /\ player' = f.player
        /\ meteors' = f.meteors
        /\ UNCHANGED bullets
        /\ meteorSpawnTimer' = f.meteorSpawnTimer
        /\ score' = f.score
        /\ difficultyLevel' = f.difficultyLevel
        /\ isGameOver' = f.isGameOver
        /\ rainbowHue' = f.rainbowHue

Reset ==
    LET f == Fresh(meteorSpawnTimer)
    IN  /\ player' = f.player
        /\ meteors' = f.meteors
        /\ bullets' = f.bullets
        /\ meteorSpawnTimer' = f.meteorSpawnTimer
        /\ score' = f.score
        /\ difficultyLevel' = f.difficultyLevel
        /\ isGameOver' = f.isGameOver
        /\ rainbowHue' = f.rainbowHue

\* rainbowHue += 0.01; if rainbowHue > 1.0 { rainbowHue = 0 }.  In float64
\* the hundredth addition of 0.01 gives 1.0000000000000007 > 1.0.
NextHue(h) == IF h + 1 > 99 THEN 0 ELSE h + 1

\* The level rounded up: 1 from the first point on.
LevelUp(sc) == (sc + 9) \div 10

Level(sc) == sc \div 10

NoCollision == [meteors |-> <<>>, bullets |-> <<>>]

NoShots ==
    [keys |-> [Left |-> FALSE, Right |-> FALSE, Up |-> FALSE, Down |-> FALSE,
               Space |-> FALSE],
     last |-> 0,
     shots |-> 0]

\* UpdateGameOver that keeps the meteors moving while the game is over.
UpdateGameOverMoving(keys) ==
    /\ isGameOver
    /\ IF keys.Space
       THEN /\ Reset
            /\ lastOp' = "reset"
            /\ playTicks' = 0
            /\ spawned' = 0
            /\ lastSpawn' = 0
            /\ gaps' = {}
            /\ atCollision' = NoCollision
       ELSE /\ rainbowHue' = NextHue(rainbowHue)
            /\ meteors' = UpdateMeteors(meteors)
            /\ lastOp' = "over"
            /\ UNCHANGED <<player, meteorSpawnTimer, bullets, score,
                           difficultyLevel, isGameOver, playTicks, spawned,
                           lastSpawn, gaps, atCollision>>

\* UpdateGameOver restarting on the next tick whatever the keys.
UpdateGameOverAuto(keys) ==
    /\ isGameOver
    /\ Reset
    /\ lastOp' = "reset"
    /\ playTicks' = 0
    /\ spawned' = 0
    /\ lastSpawn' = 0
    /\ gaps' = {}
    /\ atCollision' = NoCollision

\* Game.Update while isGameOver.
UpdateGameOver(keys) ==
    /\ isGameOver
    /\ IF keys.Space
       THEN /\ Reset
            /\ lastOp' = "reset"
            /\ playTicks' = 0
            /\ spawned' = 0
            /\ lastSpawn' = 0
            /\ gaps' = {}
            /\ atCollision' = NoCollision
       ELSE /\ rainbowHue' = NextHue(rainbowHue)
            /\ lastOp' = "over"
            /\ UNCHANGED <<player, meteorSpawnTimer, meteors, bullets, score,
                           difficultyLevel, isGameOver, playTicks, spawned,
                           lastSpawn, gaps, atCollision>>

\* The meteors NewMeteor can return at this difficulty, one per draw.
SpawnChoices(difficulty, draws) == {NewMeteor(difficulty, d) : d \in draws}

\* UpdatePlaying with the spawn after the advance of the meteors: a meteor
\* spawned in a tick is not moved in that tick.
UpdatePlayingSpawnLast(keys, draws) ==
    /\ ~isGameOver
    /\ \E level \in {Level(score)} :
       \E pu \in {PlayerUpdate(player, level, keys)} :
       \E st1 \in {TimerUpdate(meteorSpawnTimer)} :
       \E spawn \in {IsReady(st1)} :
       \E ms2 \in IF spawn
                  THEN {Append(UpdateMeteors(meteors), m) :
                           m \in SpawnChoices(level, draws)}
                  ELSE {UpdateMeteors(meteors)} :
       \E bs2 \in {UpdateBullets(bullets \o pu.fired)} :
       \E c \in {Collide(Len(ms2), pu.player, ms2, bs2, score)} :
          /\ difficultyLevel' = level
          /\ player' = pu.player
          /\ meteorSpawnTimer' = (IF spawn THEN TimerReset(st1) ELSE st1)
          /\ meteors' = c.meteors
          /\ bullets' = c.bullets
          /\ score' = c.score
          /\ isGameOver' = c.isGameOver
          /\ spawned' = (IF spawn THEN spawned + 1 ELSE spawned)
          /\ lastSpawn' = (IF spawn THEN playTicks + 1 ELSE lastSpawn)
          /\ gaps' = (IF spawn /\ spawned > 0
                      THEN gaps \cup {<<level, playTicks + 1 - lastSpawn>>}
                      ELSE gaps)
          /\ atCollision' = [meteors |-> ms2, bullets |-> bs2]
    /\ playTicks' = playTicks + 1
    /\ lastOp' = "tick"
    /\ UNCHANGED rainbowHue

\* Game.Update while playing, with the keys held; NewMeteor, if it is
\* called, takes its random draws from draws.
UpdatePlaying(keys, draws) ==
    /\ ~isGameOver
    /\ \E level \in {Level(score)} :
       \E pu \in {PlayerUpdate(player, level, keys)} :
       \E st1 \in {TimerUpdate(meteorSpawnTimer)} :
       \E spawn \in {IsReady(st1)} :
       \E ms1 \in IF spawn
                  THEN {Append(meteors, m) : m \in SpawnChoices(level, draws)}
                  ELSE {meteors} :
       \E ms2 \in {UpdateMeteors(ms1)} :
       \E bs2 \in {UpdateBullets(bullets \o pu.fired)} :
       \E c \in {Collide(Len(ms2), pu.player, ms2, bs2, score)} :
          /\ difficultyLevel' = level
          /\ player' = pu.player
          /\ meteorSpawnTimer' = (IF spawn THEN TimerReset(st1) ELSE st1)
          /\ meteors' = c.meteors
          /\ bullets' = c.bullets
          /\ score' = c.score
          /\ isGameOver' = c.isGameOver
          /\ spawned' = (IF spawn THEN spawned + 1 ELSE spawned)
          /\ lastSpawn' = (IF spawn THEN playTicks + 1 ELSE lastSpawn)
          /\ gaps' = (IF spawn /\ spawned > 0
                      THEN gaps \cup {<<level, playTicks + 1 - lastSpawn>>}
                      ELSE gaps)
          /\ atCollision' = [meteors |-> ms2, bullets |-> bs2]
    /\ playTicks' = playTicks + 1
    /\ lastOp' = "tick"
    /\ UNCHANGED rainbowHue

Update(keys, draws) == UpdateGameOver(keys) \/ UpdatePlaying(keys, draws)

-----------------------------------------------------------------------------
(* The rotation in float64 *)

\* A float64 of the size of the rotation is a whole number of units of
\* 2^-57 (the last place of baseRotSpeed): a sign and a magnitude, the
\* magnitude written in digits of base 1024, least significant first,
\* without leading zeros.  The sum of two of them is the exact sum rounded
\* to 53 significant bits, ties to even, as the hardware rounds it.

\* math.Pi / float64(ebiten.TPS()) at 60 ticks a second:
\* 7545853602163669 * 2^-57 = 0.05235987755982988...
BaseRotSpeed64 == [neg |-> FALSE, mag |-> <<981, 762, 823, 935, 718, 6>>]

Zero64 == [neg |-> FALSE, mag |-> <<>>]

RECURSIVE TrimDigits(_)
TrimDigits(a) ==
    IF a # <<>> /\ a[Len(a)] = 0 THEN TrimDigits(SubSeq(a, 1, Len(a) - 1)) ELSE a

RECURSIVE AddDigits(_, _, _)
\* a + b + carry.
AddDigits(a, b, carry) ==
    IF a = <<>> /\ b = <<>>
    THEN IF carry = 0 THEN <<>> ELSE <<carry>>
    ELSE LET x == IF a = <<>> THEN 0 ELSE Head(a)
             y == IF b = <<>> THEN 0 ELSE Head(b)
             ra == IF a = <<>> THEN <<>> ELSE Tail(a)
             rb == IF b = <<>> THEN <<>> ELSE Tail(b)
             t == x + y + carry
         IN  <<t % 1024>> \o AddDigits(ra, rb, t \div 1024)

RECURSIVE SubDigits(_, _, _)
\* a - b - borrow, for a >= b + borrow; leading zeros are left in.
SubDigits(a, b, borrow) ==
    IF a = <<>> THEN <<>>
    ELSE LET y == IF b = <<>> THEN 0 ELSE Head(b)
             rb == IF b = <<>> THEN <<>> ELSE Tail(b)
             t == Head(a) - y - borrow
         IN  IF t < 0
             THEN <<t + 1024>> \o SubDigits(Tail(a), rb, 1)
             ELSE <<t>> \o SubDigits(Tail(a), rb, 0)

\* a < b.
LessDigits(a, b) ==
    \/ Len(a) < Len(b)
    \/ /\ Len(a) = Len(b)
       /\ \E i \in DOMAIN a :
             /\ a[i] < b[i]
             /\ \A k \in DOMAIN a : k > i => a[k] = b[k]

\* The number of significant bits of a.
BitLength(a) ==
    IF a = <<>> THEN 0
    ELSE 10 * (Len(a) - 1)
             + (CHOOSE n \in 1..10 : 2^(n - 1) <= a[Len(a)] /\ a[Len(a)] < 2^n)

\* a rounded to 53 significant bits, ties to even (for a below 2^62: fewer
\* than ten bits to drop, all of them in the lowest digit).
Round53(a) ==
    LET t == BitLength(a) - 53
    IN  IF t <= 0 THEN a
        ELSE LET rem == a[1] % 2^t
                 kept == [a EXCEPT ![1] = a[1] - rem]
                 odd == (a[1] \div 2^t) % 2 = 1
                 up == 2 * rem > 2^t \/ (2 * rem = 2^t /\ odd)
             IN  IF up THEN AddDigits(kept, <<2^t>>, 0) ELSE kept

Neg64(x) == IF x.mag = <<>> THEN x ELSE [x EXCEPT !.neg = ~x.neg]

\* x + y in float64.
Add64(x, y) ==
    IF x.neg = y.neg
    THEN [neg |-> x.neg, mag |-> Round53(AddDigits(x.mag, y.mag, 0))]
    ELSE IF x.mag = y.mag THEN Zero64
    ELSE IF LessDigits(x.mag, y.mag)
    THEN [neg |-> y.neg, mag |-> Round53(TrimDigits(SubDigits(y.mag, x.mag, 0)))]
    ELSE [neg |-> x.neg, mag |-> Round53(TrimDigits(SubDigits(x.mag, y.mag, 0)))]

\* The rotation part of Player.Update at difficulty 0, where rotSpeed =
\* baseRotSpeed * 1 is baseRotSpeed: p.rotation -= rotSpeed if Left is
\* pressed, then p.rotation += rotSpeed if Right is pressed.
Turn64(rot, keys) ==
    LET rot1 == IF keys.Left THEN Add64(rot, Neg64(BaseRotSpeed64)) ELSE rot
    IN  IF keys.Right THEN Add64(rot1, BaseRotSpeed64) ELSE rot1

-----------------------------------------------------------------------------
(* Specifications *)

Abs(n) == IF n < 0 THEN -n ELSE n

\* The caps on the player: how far it has turned and travelled.
PlayerWithin(p) ==
    /\ Abs(p.rotation) < 100 * (MaxTurn + 1)
    /\ Abs(p.position.X - PlayerStart.X) <= Px(PlayerRange)
    /\ Abs(p.position.Y - PlayerStart.Y) <= Px(PlayerRange)

\* The caps of a run: every tick must produce a state within them.
Within(maxScore) ==
    /\ score <= maxScore
    /\ rainbowHue <= MaxHue
    /\ Len(meteors) <= MaxMeteors
    /\ Len(bullets) <= MaxBullets
    /\ PlayerWithin(player)
    /\ \A i \in 1..Len(bullets) :
          /\ Abs(bullets[i].position.X - Px(ScreenWidth \div 2)) <= Px(BulletRange)
          /\ Abs(bullets[i].position.Y - Px(ScreenHeight \div 2)) <= Px(BulletRange)

TimerIdle == timer = NewTimer(0) /\ updates = 0

InitGame ==
    /\ player = NewGame.player
    /\ meteors = NewGame.meteors
    /\ bullets = NewGame.bullets
    /\ meteorSpawnTimer = NewGame.meteorSpawnTimer
    /\ score = NewGame.score
    /\ difficultyLevel = NewGame.difficultyLevel
    /\ isGameOver = NewGame.isGameOver
    /\ rainbowHue = NewGame.rainbowHue
    /\ lastOp = "new"
    /\ playTicks = 0
    /\ spawned = 0
    /\ lastSpawn = 0
    /\ gaps = {}
    /\ atCollision = NoCollision
    /\ fireLog = NoShots
    /\ rotation64 = Zero64

Init == InitGame /\ TimerIdle

\* At most one of the arrow keys held, with or without Space.
OneKey ==
    {k \in Keys : Cardinality({a \in {"Left", "Right", "Up", "Down"} : k[a]}) <= 1}

\* One call of Game.Update by the tick source.
Tick ==
    /\ \E keys \in OneKey :
          /\ isGameOver \/ PlayerWithin(PlayerUpdate(player, Level(score), keys).player)
          /\ Update(keys, MeteorDraws)
    /\ Within(MaxScore)'
    /\ UNCHANGED <<timer, updates, fireLog, rotation64>>

Next == Tick

Spec == Init /\ [][Next]_vars

\* Long runs: the player stays where it starts and only fires, and every
\* meteor comes from the top.
RunKeys == {k \in Keys : ~k.Left /\ ~k.Right /\ ~k.Up /\ ~k.Down}

RunDraws == {d \in MeteorDraws : d.sin = -1}

TickRun ==
    /\ \E keys \in RunKeys : Update(keys, RunDraws)
    /\ Within(MaxRunScore)'
    /\ UNCHANGED <<timer, updates, fireLog, rotation64>>

NextRun == TickRun

SpecRun == Init /\ [][NextRun]_vars

\* A Timer on its own: built by NewTimer from a duration, then any
\* sequence of Update() and Reset() calls.
InitTimer ==
    /\ InitGame
    /\ \E k \in 0..MaxTenths : timer = NewTimer(k * 100000000)
    /\ updates = 0

TimerUpdateCall ==
    /\ updates < MaxUpdates
    /\ timer' = TimerUpdate(timer)
    /\ updates' = updates + 1
    /\ lastOp' = "update"
    /\ UNCHANGED gameVars

TimerResetCall ==
    /\ timer' = TimerReset(timer)
    /\ updates' = 0
    /\ lastOp' = "reset"
    /\ UNCHANGED gameVars

NextTimer == TimerUpdateCall \/ TimerResetCall

SpecTimer == InitTimer /\ [][NextTimer]_vars

\* Game.Reset called in any state, not only by the restart key.
ResetCall ==
    /\ Reset
    /\ lastOp' = "reset"
    /\ playTicks' = 0
    /\ spawned' = 0
    /\ lastSpawn' = 0
    /\ gaps' = {}
    /\ atCollision' = NoCollision
    /\ UNCHANGED <<timer, updates, fireLog, rotation64>>

NextReset == Tick \/ ResetCall

SpecReset == Init /\ [][NextReset]_vars

\* Firing: the player stays where it starts, every meteor comes from the
\* top, and each tick records whether Space was held and when the player
\* last fired.
FireLogAfter(keys) ==
    LET fired == PlayerUpdate(player, Level(score), keys).fired
    IN  [keys |-> keys,
         last |-> IF isGameOver
                  THEN IF keys.Space THEN 0 ELSE fireLog.last
                  ELSE IF fired # <<>> THEN playTicks + 1 ELSE fireLog.last,
         shots |-> IF isGameOver
                   THEN IF keys.Space THEN 0 ELSE fireLog.shots
                   ELSE fireLog.shots + Len(fired)]

TickFire ==
    /\ \E keys \in RunKeys :
          /\ Update(keys, RunDraws)
          /\ fireLog' = FireLogAfter(keys)
    /\ Within(MaxRunScore)'
    /\ UNCHANGED <<timer, updates, rotation64>>

NextFire == TickFire

SpecFire == Init /\ [][NextFire]_vars

\* Levels: a game that has reached score 10 * d, for any level d up to
\* MaxLevel, with the entities on the field left out: the player as
\* NewPlayer builds it, then the first steps of a Playing tick on their own:
\* Player.Update with any keys, up to MaxSteps times, and last the append
\* of a new meteor.
InitLevels ==
    /\ \E d \in 0..MaxLevel : score = 10 * d /\ difficultyLevel = d
    /\ player = NewGame.player
    /\ meteors = NewGame.meteors
    /\ bullets = NewGame.bullets
    /\ meteorSpawnTimer = NewGame.meteorSpawnTimer
    /\ isGameOver = NewGame.isGameOver
    /\ rainbowHue = NewGame.rainbowHue
    /\ lastOp = "new"
    /\ playTicks = 0
    /\ spawned = 0
    /\ lastSpawn = 0
    /\ gaps = {}
    /\ atCollision = NoCollision
    /\ fireLog = NoShots
    /\ rotation64 = Zero64
    /\ TimerIdle

\* g.difficultyLevel = g.score / 10; g.player.Update(g.difficultyLevel).
CraftTick ==
    /\ updates < MaxSteps
    /\ meteors = <<>>
    /\ \E keys \in OneKey :
       \E pu \in {PlayerUpdate(player, Level(score), keys)} :
          /\ player' = pu.player
          /\ bullets' = bullets \o pu.fired
          /\ fireLog' = [keys |-> keys,
                         last |-> IF pu.fired # <<>> THEN updates + 1
                                  ELSE fireLog.last,
                         shots |-> fireLog.shots + Len(pu.fired)]
    /\ difficultyLevel' = Level(score)
    /\ updates' = updates + 1
    /\ lastOp' = "craft"
    /\ UNCHANGED <<meteorSpawnTimer, meteors, score, isGameOver, rainbowHue,
                   playTicks, spawned, lastSpawn, gaps, atCollision, timer,
                   rotation64>>

\* g.meteors = append(g.meteors, NewMeteor(g.difficultyLevel)).
MeteorSpawn ==
    /\ meteors = <<>>
    /\ \E draw \in MeteorDraws :
          meteors' = Append(meteors, NewMeteor(difficultyLevel, draw))
    /\ lastOp' = "meteor"
    /\ UNCHANGED <<player, meteorSpawnTimer, bullets, score, difficultyLevel,
                   isGameOver, rainbowHue, playTicks, spawned, lastSpawn, gaps,
                   atCollision, timer, updates, fireLog,
                   rotation64>>

NextLevels == CraftTick \/ MeteorSpawn

SpecLevels == InitLevels /\ [][NextLevels]_vars

\* Flights out of the arena: as in the firing runs, with meteors that also
\* come from the right, where they are far from the player, and runs long
\* enough for a bullet fired upwards to pass the top edge of the screen.
ArenaTicks == 58

ArenaBullets == 1

ArenaScore == 1

ArenaDraws ==
    {[cos |-> 0, sin |-> -1, baseVel |-> 50, spin |-> 100],
     [cos |-> 1, sin |-> 0, baseVel |-> 50, spin |-> 100]}

TickArena ==
    /\ isGameOver \/ playTicks < ArenaTicks
    /\ \E keys \in RunKeys :
          /\ Update(keys, ArenaDraws)
          /\ fireLog' = FireLogAfter(keys)
    /\ score' <= ArenaScore
    /\ rainbowHue' <= MaxHue
    /\ Len(bullets') <= ArenaBullets
    /\ UNCHANGED <<timer, updates, rotation64>>

NextArena == TickArena

SpecArena == Init /\ [][NextArena]_vars

\* The keys: a few ticks of Player.Update at score 0 with any of the arrow
\* keys held together, the rotation kept in float64 beside the player.
KeyTicks == 3

ArrowKeys == {k \in Keys : ~k.Space}

KeysTick ==
    /\ updates < KeyTicks
    /\ \E keys \in ArrowKeys :
       \E pu \in {PlayerUpdate(player, Level(score), keys)} :
          /\ player' = pu.player
          /\ bullets' = bullets \o pu.fired
          /\ rotation64' = Turn64(rotation64, keys)
          /\ fireLog' = [fireLog EXCEPT !.keys = keys]
    /\ difficultyLevel' = Level(score)
    /\ updates' = updates + 1
    /\ lastOp' = "keys"
    /\ UNCHANGED <<meteorSpawnTimer, meteors, score, isGameOver, rainbowHue,
                   playTicks, spawned, lastSpawn, gaps, atCollision, timer>>

NextKeys == KeysTick

SpecKeys == Init /\ [][NextKeys]_vars

\* The collision pass on its own: meteors and bullets placed around the
\* player where it starts, so that colliders overlap, share an edge or a
\* corner, or miss by one unit, then one run of the collision loop.
\*   meteor places   craft                  bullets touched
\*   (40100, 0)      shares its right edge  B2
\*   (40101, 0)      one unit off           B1 (edge), B2
\*   (0, 30101)      off to the left        B5, B6 (corner)
\*   (600, 30100)    shares its lower edge  B4, B5
\*   (40101, 39501)  off to the right       B2
MeteorPlaces ==
    {Vec(40100, 0), Vec(40101, 0), Vec(0, 30101), Vec(600, 30100),
     Vec(40101, 39501)}

\*   B1 (79601, 1000)   B2 (50000, 39500)   B3 (39500, 69602): one unit off
\*   B4 (39501, 50000)  B5 (20000, 50000)   B6 (-500, 29601)
BulletPlaces ==
    {Vec(79601, 1000), Vec(50000, 39500), Vec(39500, 69602),
     Vec(39501, 50000), Vec(20000, 50000), Vec(-500, 29601)}

PlacedMeteors ==
    {[position |-> p, movement |-> Vec(0, 50), rotation |-> 0,
      rotationSpeed |-> 100] : p \in MeteorPlaces}

PlacedBullets ==
    {[position |-> p, movement |-> Vec(0, -BulletVel)] : p \in BulletPlaces}

\* The sequences of at most n different elements of S.
Lineups(S, n) ==
    UNION {{s \in [1..k -> S] : \A i \in 1..k : \A j \in 1..k : s[i] = s[j] => i = j}
              : k \in 0..n}

InitCollide ==
    /\ meteors \in Lineups(PlacedMeteors, MaxMeteors + 1)
    /\ bullets \in Lineups(PlacedBullets, MaxBullets + 1)
    /\ player = NewGame.player
    /\ meteorSpawnTimer = NewGame.meteorSpawnTimer
    /\ score \in {0, MaxScore}
    /\ difficultyLevel = NewGame.difficultyLevel
    /\ isGameOver = NewGame.isGameOver
    /\ rainbowHue = NewGame.rainbowHue
    /\ lastOp = "new"
    /\ playTicks = 0
    /\ spawned = 0
    /\ lastSpawn = 0
    /\ gaps = {}
    /\ atCollision = NoCollision
    /\ fireLog = NoShots
    /\ rotation64 = Zero64
    /\ TimerIdle

\* The collision loop of Game.Update, once.
Resolve ==
    /\ lastOp = "new"
    /\ \E c \in {Collide(Len(meteors), player, meteors, bullets, score)} :
          /\ meteors' = c.meteors
          /\ bullets' = c.bullets
          /\ score' = c.score
          /\ isGameOver' = c.isGameOver
    /\ atCollision' = [meteors |-> meteors, bullets |-> bullets]
    /\ lastOp' = "collide"
    /\ UNCHANGED <<player, meteorSpawnTimer, difficultyLevel, rainbowHue,
                   playTicks, spawned, lastSpawn, gaps, timer, updates, fireLog,
                   rotation64>>

NextCollide == Resolve

SpecCollide == InitCollide /\ [][NextCollide]_vars

-----------------------------------------------------------------------------
(* Properties *)

\* The collections as collision resolution found them in the last tick,
\* before any removal.
AM == atCollision.meteors

AB == atCollision.bullets

Has(s, e) == \E i \in DOMAIN s : s[i] = e

HitsCraft(m) == Intersects(MeteorCollider(m), PlayerCollider(player))

HitsBullet(m, b) == Intersects(MeteorCollider(m), BulletCollider(b))

\* The obstacle/projectile pairs where the obstacle also touches the craft.
CraftPairs ==
    {<<i, j>> \in (DOMAIN AM) \X (DOMAIN AB) :
        HitsCraft(AM[i]) /\ HitsBullet(AM[i], AB[j])}

\* The number of obstacles the last collision resolution removed.
Removed == Len(AM) - Len(meteors)

\* C1, as stated: after a Playing tick in which an obstacle touched both the
\* craft and a projectile at collision resolution, the game is over and both
\* the obstacle and the projectile are still in their collections.
C1_AsStated ==
    lastOp = "tick" =>
        \A pr \in CraftPairs :
            /\ isGameOver
            /\ Has(meteors, AM[pr[1]])
            /\ Has(bullets, AB[pr[2]])

\* What holds of such a pair after the tick: the game is over, the obstacle
\* is kept, and the projectile is gone only if an obstacle inserted after
\* this one, itself removed, also touched it.
C1_Pairs ==
    \A pr \in CraftPairs :
        /\ isGameOver
        /\ Has(meteors, AM[pr[1]])
        /\ ~Has(bullets, AB[pr[2]]) =>
              \E k \in DOMAIN AM :
                  /\ k > pr[1]
                  /\ HitsBullet(AM[k], AB[pr[2]])
                  /\ ~Has(meteors, AM[k])

\* C1: in a Playing tick where an obstacle touches both the craft and a
\* projectile at collision resolution, the tick ends in GameOver, the
\* obstacle is not removed, the projectile is removed only together with a
\* later-inserted obstacle that also touches it, and score grows by one per
\* removed obstacle, so the pair itself adds nothing.
C1_CraftPreempts ==
    [][lastOp' = "tick" /\ CraftPairs' # {} =>
          /\ C1_Pairs'
          /\ score' - score = Removed'
          /\ Len(bullets') = Len(AB') - Removed']_vars

\* An obstacle touched the craft and a projectile in the tick that ended
\* the game, and both are still there.
C1_Witness ==
    /\ lastOp = "tick"
    /\ isGameOver
    /\ \E pr \in CraftPairs : Has(meteors, AM[pr[1]]) /\ Has(bullets, AB[pr[2]])

\* The projectiles that touched obstacle i at collision resolution.
Touching(i) == {j \in DOMAIN AB : HitsBullet(AM[i], AB[j])}

Last(js) == CHOOSE j \in js : \A k \in js : k <= j

\* Obstacle i touched two or more projectiles and not the craft.
Multi(i) == Cardinality(Touching(i)) >= 2 /\ ~HitsCraft(AM[i])

\* Obstacle i was removed with the last-inserted of its projectiles, and
\* the other projectiles that touched it were kept.
OneConsumed(i) ==
    /\ ~Has(meteors, AM[i])
    /\ ~Has(bullets, AB[Last(Touching(i))])
    /\ \A j \in Touching(i) \ {Last(Touching(i))} : Has(bullets, AB[j])

\* No obstacle inserted after i touched the craft, and no obstacle other
\* than i touched a projectile that touched i.
Undisturbed(i) ==
    /\ \A k \in DOMAIN AM : k > i => ~HitsCraft(AM[k])
    /\ \A k \in DOMAIN AM \ {i} : \A j \in Touching(i) : ~HitsBullet(AM[k], AB[j])

\* C2, as stated: after a Playing tick in which two or more projectiles
\* touched an obstacle that did not touch the craft, the obstacle is gone,
\* the last-inserted of those projectiles is gone and the others are kept.
C2_AsStated ==
    lastOp = "tick" => \A i \in DOMAIN AM : Multi(i) => OneConsumed(i)

\* C2: when two or more projectiles touch an obstacle that does not touch
\* the craft, and no later-inserted obstacle touches the craft and no other
\* obstacle touches any of those projectiles, the obstacle is removed with
\* exactly the last-inserted of its projectiles, the others stay, and score
\* and the projectile count move by one per removed obstacle.
C2_OneProjectile ==
    [][lastOp' = "tick" =>
          \A i \in DOMAIN AM' :
              (Multi(i) /\ Undisturbed(i))' =>
                  /\ OneConsumed(i)'
                  /\ score' - score = Removed'
                  /\ Len(bullets') = Len(AB') - Removed']_vars

\* Two projectiles touched one obstacle, which was removed with one of them
\* for one point while the game went on.
C2_Witness ==
    /\ lastOp = "tick"
    /\ ~isGameOver
    /\ \E i \in DOMAIN AM : Multi(i) /\ Undisturbed(i) /\ OneConsumed(i)
    /\ Removed = 1
    /\ Len(bullets) = Len(AB) - 1

\* C3: score survives the end of the game.  The tick that detects the
\* craft collision leaves score at the value it had at detection (the score
\* before the tick plus one per obstacle removed earlier in the pass),
\* every later GameOver tick keeps it, and a positive score becomes 0 only
\* in a step that runs Reset.
C3_ScorePreserved ==
    [][/\ (~isGameOver /\ isGameOver') => score' = score + Removed'
       /\ (isGameOver /\ isGameOver') => score' = score
       /\ (score > 0 /\ score' = 0) => lastOp' = "reset"]_vars

\* The tick that ended the game, with points on the board.
C3_Witness == isGameOver /\ lastOp = "tick" /\ score > 0

\* The part of the state the simulation is about: everything but the
\* rainbow animation.
core ==
    <<player, meteorSpawnTimer, meteors, bullets, score, difficultyLevel,
      isGameOver>>

\* C4: a tick in GameOver that does not restart changes nothing in the
\* core state (craft, both timers, obstacles, projectiles, score,
\* difficultyLevel) and the game stays over.
C4_GameOverFrozen ==
    [][isGameOver /\ lastOp' # "reset" => UNCHANGED core /\ isGameOver']_vars

\* A GameOver tick without restart has run, with obstacles on the field
\* and a score to keep.
C4_Witness ==
    /\ lastOp = "over"
    /\ rainbowHue > 0
    /\ meteors # <<>>
    /\ score > 0

\* C5: Reset leaves a fresh craft (initial position, rotation 0, fire timer
\* at 0), no obstacles, no projectiles, the spawn timer at 0, score 0,
\* difficultyLevel 0 and the game running: the core state NewGame builds.
C5_ResetIsFresh ==
    lastOp = "reset" =>
        /\ player.position = PlayerStart
        /\ player.rotation = 0
        /\ player.shootCooldown.currentTicks = 0
        /\ meteors = <<>>
        /\ bullets = <<>>
        /\ meteorSpawnTimer.currentTicks = 0
        /\ score = 0
        /\ difficultyLevel = 0
        /\ ~isGameOver
        /\ core = <<NewGame.player, NewGame.meteorSpawnTimer, NewGame.meteors,
                    NewGame.bullets, NewGame.score, NewGame.difficultyLevel,
                    NewGame.isGameOver>>

\* Reset has just run.
C5_Witness == lastOp = "reset" /\ score = 0 /\ bullets = <<>>

\* C6, as stated: in every state between ticks difficultyLevel is
\* floor(score / 10).
C6_AsStated == difficultyLevel = score \div 10

\* C6: difficultyLevel is a stored field.  A Playing tick sets it to
\* floor(score / 10) of the score the tick started with, before collision
\* resolution; a GameOver tick keeps it; Reset sets it to 0.  So between
\* ticks it never exceeds floor(score / 10) but can be behind it.
C6_LevelAtTickStart ==
    [][/\ lastOp' = "tick" => difficultyLevel' = score \div 10
       /\ lastOp' = "over" => difficultyLevel' = difficultyLevel
       /\ lastOp' = "reset" => difficultyLevel' = 0
       /\ difficultyLevel' <= score' \div 10]_vars

\* The level has followed the score to 1.
C6_Witness == lastOp = "tick" /\ difficultyLevel = 1 /\ score \div 10 = 1

\* C7, as stated: both timers have currentTicks <= targetTicks in every
\* state.
C7_AsStated ==
    /\ meteorSpawnTimer.currentTicks <= meteorSpawnTimer.targetTicks
    /\ player.shootCooldown.currentTicks <= player.shootCooldown.targetTicks

\* C7: the spawn timer always has currentTicks <= targetTicks.  The fire
\* timer's currentTicks never grows past the target of its tick and never
\* exceeds the base cooldown's target, but it can stand above a target
\* that a higher difficultyLevel has just lowered.
C7_TimerBounds ==
    [][/\ meteorSpawnTimer'.currentTicks <= meteorSpawnTimer'.targetTicks
       /\ player'.shootCooldown.currentTicks <= TicksOf(BaseCooldown)
       /\ player'.shootCooldown.currentTicks > player.shootCooldown.currentTicks
             => player'.shootCooldown.currentTicks <= player'.shootCooldown.targetTicks
       /\ player'.shootCooldown.targetTicks <= TicksOf(BaseCooldown)]_vars

\* The fire timer stands full at a level whose target is lower than the
\* base target.
C7_Witness ==
    /\ lastOp = "tick"
    /\ player.shootCooldown.targetTicks < TicksOf(BaseCooldown)
    /\ IsReady(player.shootCooldown)
    /\ IsReady(TimerUpdate(meteorSpawnTimer))

\* C8: a Timer with target N, after n calls of Update since it was built
\* or last Reset, is ready exactly when n >= N: not before N calls, from
\* the N-th call on, not after Reset when N > 0, and always when N = 0.
C8_ReadyAfterN == IsReady(timer) <=> updates >= timer.targetTicks

\* A timer with a target of several ticks has just become ready.
C8_Witness ==
    /\ timer.targetTicks > 1
    /\ updates = timer.targetTicks
    /\ lastOp = "update"
    /\ IsReady(timer)

\* The spawn timer's target: 60 ticks at 60 ticks a second.
SpawnTicks == TicksOf(SpawnInterval)

C10_SpawnFaster ==
    \A a \in gaps : \A b \in gaps : a[1] < b[1] => b[2] < a[2]

\* The fire timer is ready after the Update() of the coming tick: its
\* currentTicks, raised by one if below the tick's target, reaches it.
ReadyAfterUpdate ==
    player.shootCooldown.currentTicks + 1 >= player'.shootCooldown.targetTicks

\* The coming tick appended a projectile.
Appended == Len(AB') = Len(bullets) + 1

\* C11: a Playing tick appends a projectile exactly when Space is held and
\* the fire timer is ready after its update in that tick; it appends at
\* most one; the shot sets the fire timer's currentTicks to 0; and a shot
\* comes at least the tick's cooldown target in ticks after the player's
\* previous shot.  Without a shot the timer's count never falls.
C11_RateLimitedFire ==
    [][lastOp' = "tick" =>
          /\ Appended <=> (fireLog'.keys.Space /\ ReadyAfterUpdate)
          /\ Len(AB') \in {Len(bullets), Len(bullets) + 1}
          /\ Appended => /\ player'.shootCooldown.currentTicks = 0
                         /\ fireLog'.last = playTicks'
                         /\ fireLog.last > 0 =>
                               playTicks' - fireLog.last >=
                                   player'.shootCooldown.targetTicks
          /\ ~Appended => /\ fireLog'.last = fireLog.last
                          /\ player'.shootCooldown.currentTicks >=
                                 player.shootCooldown.currentTicks]_vars

\* A second shot at difficultyLevel 1, with the projectile of an earlier
\* shot still flying.
C11_Witness ==
    /\ lastOp = "tick"
    /\ difficultyLevel = 1
    /\ fireLog.keys.Space
    /\ fireLog.last = playTicks
    /\ player.shootCooldown.currentTicks = 0
    /\ Len(AB) = 2

\* C12, as stated: at every difficultyLevel the fire timer's recomputed
\* target is at least 1 tick.
C12_AsStated ==
    lastOp = "craft" => player.shootCooldown.targetTicks >= 1

\* C12: the recomputed target is the truncated tick count of
\* baseCooldown x 0.92^difficultyLevel, which falls with the level and does
\* reach zero: at 60 ticks a second it is at least 2 up to level 26, 1 at
\* levels 27..34 and 0 from level 35 (score 350) on.  Right after a shot
\* (currentTicks = 0) the player fires again in the next tick exactly when
\* Space is held and the target is at most 1, so consecutive-tick firing is
\* excluded only while the target is at least 2.
C12_CooldownFloor ==
    [][lastOp' = "craft" =>
          /\ updates = 0 =>
                /\ TicksAt(Cooldown(difficultyLevel'), 60) >= 1
                      <=> difficultyLevel' <= 34
                /\ TicksAt(Cooldown(difficultyLevel'), 60) >= 2
                      <=> difficultyLevel' <= 26
                /\ TicksAt(Cooldown(difficultyLevel' + 1), 60)
                      <= TicksAt(Cooldown(difficultyLevel'), 60)
          /\ player.shootCooldown.currentTicks = 0 =>
                (Len(bullets') = Len(bullets) + 1
                    <=> /\ fireLog'.keys.Space
                        /\ player'.shootCooldown.targetTicks <= 1)]_vars

\* The player has fired in two consecutive calls of Player.Update.
C12_Witness ==
    /\ lastOp = "craft"
    /\ updates = 2
    /\ fireLog.last = 2
    /\ Len(bullets) = 2
    /\ player.shootCooldown.targetTicks <= 1

\* Length of an axis-aligned vector.
Length(v) == Abs(v.X) + Abs(v.Y)

\* How far the coming Player.Update turns and moves the player, and how
\* far it would at difficulty 0 with the same keys.
Turned == Abs(player'.rotation - player.rotation)

Moved ==
    Length(Vec(player'.position.X - player.position.X,
               player'.position.Y - player.position.Y))

BaseTurned ==
    Abs(PlayerUpdate(player, 0, fireLog'.keys).player.rotation - player.rotation)

BaseMoved ==
    LET b == PlayerUpdate(player, 0, fireLog'.keys).player
    IN  Length(Vec(b.position.X - player.position.X,
                   b.position.Y - player.position.Y))

\* The craft's part of C13, at difficultyLevel 1 against 0 with the same
\* keys: a faster turn, a faster thrust, and at 60 ticks a second a
\* smaller cooldown target.
CraftScaled ==
    lastOp' = "craft" /\ difficultyLevel' = 1 =>
        /\ fireLog'.keys.Left \/ fireLog'.keys.Right => Turned > BaseTurned
        /\ fireLog'.keys.Up \/ fireLog'.keys.Down => Moved > BaseMoved
        /\ updates = 0 =>
              TicksAt(Cooldown(1), 60) < TicksAt(Cooldown(0), 60)
        /\ player'.shootCooldown.targetTicks <= TicksOf(Cooldown(0))

\* The draws that gave the meteor just appended.
DrawsOf(m, difficulty) == {d \in MeteorDraws : NewMeteor(difficulty, d) = m}

\* C13, as stated: with the same keys and the same draws, turn rate,
\* thrust speed, obstacle speed and obstacle spin are strictly greater at
\* difficultyLevel 1 than at 0 and the cooldown target strictly smaller.
C13_AsStated ==
    [][/\ CraftScaled
       /\ lastOp' = "meteor" /\ difficultyLevel' = 1 =>
             \A d \in DrawsOf(meteors'[1], 1) :
                 /\ Length(meteors'[1].movement) > Length(NewMeteor(0, d).movement)
                 /\ meteors'[1].rotationSpeed > NewMeteor(0, d).rotationSpeed]_vars

\* C13: as above, but the spin keeps its sign and is strictly greater in
\* size: a positive spin is greater at level 1, a negative one is smaller
\* (more negative).
C13_Monotone ==
    [][/\ CraftScaled
       /\ lastOp' = "meteor" /\ difficultyLevel' = 1 =>
             \A d \in DrawsOf(meteors'[1], 1) :
                 /\ Length(meteors'[1].movement) > Length(NewMeteor(0, d).movement)
                 /\ d.spin # 0 =>
                       /\ Abs(meteors'[1].rotationSpeed)
                             > Abs(NewMeteor(0, d).rotationSpeed)
                       /\ Sign(meteors'[1].rotationSpeed) = Sign(d.spin)]_vars

\* At difficultyLevel 1 the player has turned and thrust once each and a
\* meteor with a negative spin has been appended.
C13_Witness ==
    /\ lastOp = "meteor"
    /\ difficultyLevel = 1
    /\ player.rotation = 108
    /\ player.position.Y = PlayerStart.Y - 210
    /\ meteors[1].rotationSpeed = -110

\* C14, as stated: a timer's target is the duration times the tick rate,
\* rounded to the nearest integer, for the timers NewTimer builds and for
\* the fire timer's target recomputed in each tick.
C14_AsStated ==
    /\ meteorSpawnTimer.targetTicks = TicksOfRound(SpawnInterval)
    /\ lastOp = "new" =>
          player.shootCooldown.targetTicks = TicksOfRound(BaseCooldown)
    /\ lastOp = "craft" =>
          player.shootCooldown.targetTicks
              = TicksOfRound(Cooldown(difficultyLevel))

\* t is the number of whole ticks in ns nanoseconds at tps ticks a second:
\* t / tps <= ns / 10^9 < (t + 1) / tps.
WholeTicks(t, ns, tps) ==
    LET q == (ns \div 100000) * tps + ((ns % 100000) * tps) \div 100000
    IN  t * 10000 <= q /\ q < (t + 1) * 10000

\* C14: a timer's target is the duration times the tick rate truncated to
\* whole ticks, for NewTimer and for the recomputed fire target alike; the
\* 0.276 s cooldown of difficultyLevel 1 at 60 ticks a second, 16.56 ticks,
\* gives 16.
C14_Truncates ==
    /\ WholeTicks(meteorSpawnTimer.targetTicks, SpawnInterval, TPS)
    /\ lastOp = "new" =>
          WholeTicks(player.shootCooldown.targetTicks, BaseCooldown, TPS)
    /\ lastOp = "craft" =>
          WholeTicks(player.shootCooldown.targetTicks,
                     Cooldown(difficultyLevel), TPS)
    /\ Cooldown(1) = 276000000
    /\ TicksAt(Cooldown(1), 60) = 16
    /\ TicksAtRound(Cooldown(1), 60) = 17

\* Player.Update has recomputed a target that rounding would make greater.
C14_Witness ==
    /\ lastOp = "craft"
    /\ difficultyLevel > 0
    /\ player.shootCooldown.targetTicks
          < TicksAtRound(Cooldown(difficultyLevel), TPS)

\* The collider boxes a collision pass started from.
Boxes ==
    {PlayerCollider(player)}
        \cup {MeteorCollider(AM[i]) : i \in DOMAIN AM}
        \cup {BulletCollider(AB[j]) : j \in DOMAIN AB}

\* The closed intervals [lo1, hi1] and [lo2, hi2] have a point in common
\* (when they have one, the greater of the two lower ends is one).
Common(lo1, hi1, lo2, hi2) ==
    \E x \in {lo1, lo2} : lo1 <= x /\ x <= hi1 /\ lo2 <= x /\ x <= hi2

CommonX(a, b) == Common(a.X, MaxX(a), b.X, MaxX(b))

CommonY(a, b) == Common(a.Y, MaxY(a), b.Y, MaxY(b))

\* C15: two boxes intersect exactly when their closed x-intervals have a
\* point in common and their closed y-intervals have one too; so boxes that
\* share an edge (or only a corner) intersect, boxes one unit apart on either
\* axis do not, and the test gives the same answer in both orders.
C15_ClosedOverlap ==
    lastOp = "collide" =>
        \A a \in Boxes : \A b \in Boxes :
            /\ Intersects(a, b) <=> (CommonX(a, b) /\ CommonY(a, b))
            /\ Intersects(a, b) <=> Intersects(b, a)
            /\ (MaxX(a) = b.X /\ CommonY(a, b)) => Intersects(a, b)
            /\ (MaxY(a) = b.Y /\ CommonX(a, b)) => Intersects(a, b)
            /\ (b.X = MaxX(a) + 1 \/ b.Y = MaxY(a) + 1) => ~Intersects(a, b)

\* A pass over boxes among which two share a vertical edge, two share a
\* horizontal edge, two share only a corner, two are one unit apart on x with
\* their y-intervals overlapping, and two are one unit apart on y with their
\* x-intervals overlapping.
C15_Witness ==
    /\ lastOp = "collide"
    /\ \E a \in Boxes : \E b \in Boxes :
          MaxX(a) = b.X /\ CommonY(a, b) /\ MaxY(a) # b.Y /\ Intersects(a, b)
    /\ \E a \in Boxes : \E b \in Boxes :
          MaxY(a) = b.Y /\ CommonX(a, b) /\ MaxX(a) # b.X /\ Intersects(a, b)
    /\ \E a \in Boxes : \E b \in Boxes :
          MaxX(a) = b.X /\ MaxY(a) = b.Y /\ Intersects(a, b)
    /\ \E a \in Boxes : \E b \in Boxes :
          b.X = MaxX(a) + 1 /\ CommonY(a, b) /\ ~Intersects(a, b)
    /\ \E a \in Boxes : \E b \in Boxes :
          b.Y = MaxY(a) + 1 /\ CommonX(a, b) /\ ~Intersects(a, b)
\* The (obstacle, projectile) index pairs of the line-ups ms and bs whose
\* colliders intersect.
HitPairs(ms, bs) ==
    {<<i, j>> \in (DOMAIN ms) \X (DOMAIN bs) : HitsBullet(ms[i], bs[j])}

\* s without its element at index i: what is left of it is t, in order.
Without(s, i, t) ==
    /\ Len(t) = Len(s) - 1
    /\ \A k \in DOMAIN t : t[k] = IF k < i THEN s[k] ELSE s[k + 1]

\* C16: a collision pass over line-ups with exactly one intersecting
\* (obstacle, projectile) pair and no obstacle touching the craft removes
\* that obstacle and that projectile, adds one to the score, does not end the
\* game, and leaves every other obstacle and projectile in the same relative
\* order with its position and velocity unchanged.
C16_SingleHit ==
    [][(/\ lastOp' = "collide"
        /\ Cardinality(HitPairs(meteors, bullets)) = 1
        /\ \A i \in DOMAIN meteors : ~HitsCraft(meteors[i])) =>
          \E pair \in HitPairs(meteors, bullets) :
              /\ Without(meteors, pair[1], meteors')
              /\ Without(bullets, pair[2], bullets')
              /\ score' = score + 1
              /\ ~isGameOver']_vars

\* Such a pass done over three obstacles and three projectiles, where the
\* pair is neither the last obstacle nor the last projectile, from a score
\* above zero.
C16_Witness ==
    /\ lastOp = "collide"
    /\ Cardinality(HitPairs(AM, AB)) = 1
    /\ \A i \in DOMAIN AM : ~HitsCraft(AM[i])
    /\ Len(AM) = 3 /\ Len(AB) = 3
    /\ \E pair \in HitPairs(AM, AB) : pair[1] < 3 /\ pair[2] < 3
    /\ Len(meteors) = 2 /\ Len(bullets) = 2
    /\ score = MaxScore + 1
\* C17: a game as NewGame builds it, before any tick, has score 0, is
\* playing, is at difficulty level 0, has no meteors and no bullets, and has
\* both its spawn timer and its fire timer at 0 elapsed ticks and not ready
\* (their targets, 60 and 18 ticks at 60 ticks a second, are above zero).
C17_FreshGame ==
    lastOp = "new" =>
        /\ score = 0
        /\ ~isGameOver
        /\ difficultyLevel = 0
        /\ meteors = <<>>
        /\ bullets = <<>>
        /\ meteorSpawnTimer.currentTicks = 0
        /\ ~IsReady(meteorSpawnTimer)
        /\ player.shootCooldown.currentTicks = 0
        /\ ~IsReady(player.shootCooldown)
        /\ meteorSpawnTimer.targetTicks = TicksAt(SpawnInterval, TPS)
        /\ player.shootCooldown.targetTicks = TicksAt(BaseCooldown, TPS)
        /\ TicksAt(SpawnInterval, 60) = 60
        /\ TicksAt(BaseCooldown, 60) = 18

\* The game as built, no tick taken yet.
C17_Witness ==
    /\ lastOp = "new"
    /\ playTicks = 0
    /\ player = NewPlayer(0)
    /\ meteorSpawnTimer = NewTimer(SpawnInterval)
IsMeteorRead(e) == e.op = "meteor"

\* The meteors the accesses of log read, in the order they were read.
Examined(log) == SelectSeq(log, IsMeteorRead)

\* C18: the collision pass never reads or removes at an index outside the
\* slice as it is at that moment, and it examines the obstacles present at
\* its start once each, from the last inserted to the first, stopping early
\* only at an obstacle that touches the craft.
C18_IndexSafe ==
    [][lastOp' = "collide" =>
          LET w == Walk(Len(meteors) - 1, player, meteors, bullets, <<>>)
              ex == Examined(w.log)
          IN  /\ w.meteors = meteors'
              /\ w.bullets = bullets'
              /\ w.isGameOver = isGameOver'
              /\ \A n \in DOMAIN w.log :
                     0 <= w.log[n].index /\ w.log[n].index < w.log[n].len
              /\ Len(ex) <= Len(meteors)
              /\ \A n \in DOMAIN ex :
                     ex[n].object = <<meteors[Len(meteors) - n + 1]>>
              /\ \A n \in DOMAIN ex : HitsCraft(meteors[Len(meteors) - n + 1])
                     <=> (isGameOver' /\ n = Len(ex))
              /\ ~isGameOver' => Len(ex) = Len(meteors)]_vars

\* A pass over three obstacles that removes the last one and a later one
\* (the indices below the removed ones are read in a shortened slice) and
\* runs to the first obstacle.
C18_Witness ==
    /\ lastOp = "collide"
    /\ ~isGameOver
    /\ Len(AM) = 3
    /\ Len(meteors) = 1
    /\ Len(bullets) = Len(AB) - 2
    /\ \E j \in DOMAIN AB : HitsBullet(AM[3], AB[j])
\* The last-inserted obstacle that touched the craft at collision
\* resolution: the one the traversal stops at.
Stopper == CHOOSE i \in DOMAIN AM : HitsCraft(AM[i]) /\ \A k \in DOMAIN AM : k > i => ~HitsCraft(AM[k])

\* The obstacles inserted after the stopper that touched a projectile.
Armed == {k \in DOMAIN AM : k > Stopper /\ Touching(k) # {}}

\* C19, as stated: after a collision pass that ends the game, every obstacle
\* inserted after the stopper that touched a projectile is removed and has
\* added one to the score, and every obstacle inserted before the stopper is
\* still there together with every projectile that touched it.
C19_AsStated ==
    [][lastOp' = "collide" /\ isGameOver' =>
          /\ \A k \in Armed' : ~Has(meteors', AM'[k])
          /\ score' - score = Cardinality(Armed')
          /\ \A k \in 1..(Stopper' - 1) :
                /\ Has(meteors', AM'[k])
                /\ \A j \in Touching(k)' : Has(bullets', AB'[j])]_vars

\* What holds after a pass that ends the game.  The stopper and the
\* obstacles inserted before it are in place.  A removed obstacle touched a
\* removed projectile; an obstacle inserted after the stopper that is still
\* there touched only projectiles that removed obstacles inserted after it
\* touched too.  A removed projectile touched a removed obstacle.
C19_Order ==
    /\ \A k \in 1..Stopper : meteors[k] = AM[k]
    /\ \A k \in DOMAIN AM : k > Stopper =>
          IF Has(meteors, AM[k])
          THEN \A j \in Touching(k) :
                   /\ ~Has(bullets, AB[j])
                   /\ \E h \in DOMAIN AM :
                          h > k /\ HitsBullet(AM[h], AB[j]) /\ ~Has(meteors, AM[h])
          ELSE \E j \in Touching(k) : ~Has(bullets, AB[j])
    /\ \A j \in DOMAIN AB : ~Has(bullets, AB[j]) =>
          \E k \in DOMAIN AM :
              k > Stopper /\ HitsBullet(AM[k], AB[j]) /\ ~Has(meteors, AM[k])

\* C19: in a collision pass that ends the game at the obstacle of index i,
\* the obstacles inserted after i have been processed already, each removed
\* with one projectile and one point when a projectile touching it was still
\* there at its turn; the obstacles inserted before i are not examined, are
\* all still there and add nothing to the score, and a projectile touching
\* one of them is gone only if an obstacle inserted after i consumed it.
C19_StopsAtCraft ==
    [][lastOp' = "collide" /\ isGameOver' =>
          /\ C19_Order'
          /\ score' - score = Removed'
          /\ Len(bullets') = Len(AB') - Removed']_vars

\* A pass stopped at the second of three obstacles, after the third was
\* removed with a projectile that the first one touched too.
C19_Witness ==
    /\ lastOp = "collide"
    /\ isGameOver
    /\ Len(AM) = 3
    /\ Stopper = 2
    /\ ~Has(meteors, AM[3])
    /\ Has(meteors, AM[1])
    /\ \E j \in Touching(1) : ~Has(bullets, AB[j])
    /\ score = MaxScore + 1
\* Some obstacle touched the craft at collision resolution.
CraftTouched == \E i \in DOMAIN AM : HitsCraft(AM[i])

\* C20: a tick while playing ends the game exactly when an obstacle touches
\* the craft at collision resolution, whether or not Space is held, and is
\* never a restart (the score does not drop, the obstacles are carried into
\* the tick); a tick while the game is over restarts it, with the full reset,
\* when Space is held, and otherwise leaves the game over and its score,
\* obstacles, projectiles and craft as they are.  There is no other change
\* of isGameOver.
C20_RunStates ==
    [][IF ~isGameOver
       THEN /\ lastOp' = "tick"
            /\ isGameOver' <=> CraftTouched'
            /\ score' >= score
            /\ playTicks' = playTicks + 1
            /\ Len(AM') >= Len(meteors)
            /\ Len(AB') >= Len(bullets)
       ELSE IF fireLog'.keys.Space
            THEN /\ lastOp' = "reset"
                 /\ ~isGameOver'
                 /\ score' = 0
                 /\ difficultyLevel' = 0
                 /\ meteors' = <<>>
                 /\ bullets' = <<>>
                 /\ player' = NewPlayer(0)
                 /\ meteorSpawnTimer'.currentTicks = 0
            ELSE /\ lastOp' = "over"
                 /\ isGameOver'
                 /\ UNCHANGED <<score, difficultyLevel, meteors, bullets, player,
                                meteorSpawnTimer>>]_vars

\* The game restarted by a tick with Space held, which it can only be
\* after a tick that ended it.
C20_Witness ==
    /\ lastOp = "reset"
    /\ fireLog.keys.Space
    /\ ~isGameOver
    /\ score = 0
\* C21: between two resets the obstacles spawned less the obstacles present,
\* and the projectiles fired less the projectiles present, both equal the
\* score.  In a playing tick an obstacle or a projectile leaves its
\* collection only together with one of the other kind that it touched at
\* collision resolution, however far outside the screen it is; a tick while
\* the game is over removes nothing, and when the game is over an obstacle
\* that touches the craft is in the collection.
C21_OnlyByCollision ==
    [][/\ spawned' - Len(meteors') = score'
       /\ fireLog'.shots - Len(bullets') = score'
       /\ isGameOver' =>
             \E i \in DOMAIN meteors' :
                 Intersects(MeteorCollider(meteors'[i]), PlayerCollider(player'))
       /\ lastOp' = "over" => meteors' = meteors /\ bullets' = bullets
       /\ lastOp' = "tick" =>
             /\ \A i \in DOMAIN bullets :
                    \/ Has(bullets', BulletUpdate(bullets[i]))
                    \/ \E k \in DOMAIN AM' :
                           /\ HitsBullet(AM'[k], BulletUpdate(bullets[i]))
                           /\ ~Has(meteors', AM'[k])
             /\ \A i \in DOMAIN meteors :
                    \/ Has(meteors', MeteorUpdate(meteors[i]))
                    \/ \E j \in DOMAIN AB' :
                           /\ HitsBullet(MeteorUpdate(meteors[i]), AB'[j])
                           /\ ~Has(bullets', AB'[j])]_vars

\* After a projectile and an obstacle were removed together, a projectile
\* that has flown out over the top of the screen and an obstacle that is
\* outside the screen are both still in their collections.
C21_Witness ==
    /\ lastOp = "tick"
    /\ score = 1
    /\ \E j \in DOMAIN bullets : ~Intersects(BulletCollider(bullets[j]), Screen)
    /\ \E i \in DOMAIN meteors :
          MeteorCollider(meteors[i]).X >= Px(ScreenWidth) - Px(1)
    /\ spawned = Len(meteors) + 1
    /\ fireLog.shots = 2
\* Element e moved by one step of its movement.
Stepped(e) == Vec(e.position.X + e.movement.X, e.position.Y + e.movement.Y)

\* The place Player.Update hands to NewBullet for player p: the middle of
\* the sprite, 30 pixels ahead.
Muzzle(p) ==
    Vec(p.position.X + Px(PlayerSprite.Dx) \div 2 + Sin(p.rotation) * Px(30),
        p.position.Y + Px(PlayerSprite.Dy) \div 2 - Cos(p.rotation) * Px(30))

\* C22: a playing tick sets difficultyLevel from the score it starts with
\* and updates the craft at that level; the projectiles and obstacles that
\* collision resolution finds are those of the start of the tick, each moved
\* by one step, followed by the projectile fired in the tick, one step ahead
\* of the muzzle, and by the obstacle spawned in the tick, one step from its
\* spawn point at the speed of that level; and the tick's outcome is the
\* collision pass over them.
C22_TickOrder ==
    [][lastOp' = "tick" =>
          LET level == score \div 10
              fired == Len(AB') - Len(bullets)
              born == Len(AM') - Len(meteors)
          IN  /\ difficultyLevel' = level
              /\ player'.shootCooldown.targetTicks
                     = TicksOf(IF level > 0 THEN Cooldown(level) ELSE BaseCooldown)
              /\ fired = fireLog'.shots - fireLog.shots
              /\ born = spawned' - spawned
              /\ fired \in {0, 1}
              /\ born \in {0, 1}
              /\ \A i \in DOMAIN bullets :
                     /\ AB'[i].position = Stepped(bullets[i])
                     /\ AB'[i].movement = bullets[i].movement
              /\ \A i \in DOMAIN meteors :
                     /\ AM'[i].position = Stepped(meteors[i])
                     /\ AM'[i].movement = meteors[i].movement
              /\ fired = 1 =>
                     LET b == AB'[Len(AB')]
                     IN  /\ b.position.X = Muzzle(player').X + b.movement.X
                         /\ b.position.Y = Muzzle(player').Y + b.movement.Y
                         /\ Abs(b.movement.X) + Abs(b.movement.Y) = BulletVel
              /\ born = 1 =>
                     LET m == AM'[Len(AM')]
                     IN  \E d \in RunDraws :
                            /\ Abs(m.movement.X) + Abs(m.movement.Y)
                                   = (d.baseVel * (100 + 12 * level)) \div 100
                            /\ m.position.X =
                                   Px(ScreenWidth \div 2) + d.cos * (Px(ScreenWidth) \div 2)
                                       + m.movement.X
                            /\ m.position.Y =
                                   Px(ScreenHeight \div 2) + d.sin * (Px(ScreenWidth) \div 2)
                                       + m.movement.Y
              /\ \E c \in {Collide(Len(AM'), player', AM', AB', score)} :
                     /\ meteors' = c.meteors
                     /\ bullets' = c.bullets
                     /\ score' = c.score
                     /\ isGameOver' = c.isGameOver]_vars

\* A tick that started at score 9, in which the player fired, a meteor was
\* spawned at the speed of level 0, and the bullet fired in the tick was
\* used up by the collision pass of the tick, which brought the score to 10.
C22_Witness ==
    /\ lastOp = "tick"
    /\ score = 10
    /\ difficultyLevel = 0
    /\ fireLog.last = playTicks
    /\ lastSpawn = playTicks
    /\ Len(AB) = 1
    /\ bullets = <<>>
    /\ AB[1].position.Y = Muzzle(player).Y - BulletVel
    /\ \E d \in RunDraws : AM[Len(AM)].movement.Y = d.baseVel
\* C23, as stated: a tick of the player with Left and Right both held, or
\* neither, leaves the rotation as it was, and a tick with Up and Down both
\* held, or neither, leaves the position as it was.
C23_AsStated ==
    [][lastOp' = "keys" =>
          /\ fireLog'.keys.Left = fireLog'.keys.Right =>
                /\ rotation64' = rotation64
                /\ player'.rotation = player.rotation
          /\ fireLog'.keys.Up = fireLog'.keys.Down =>
                player'.position = player.position]_vars
\* The index pairs <<obstacle, projectile>>, in the line-ups ms and bs, of
\* the removals that the accesses of log record.
Pairings(log, ms, bs) ==
    {<<CHOOSE i \in DOMAIN ms : <<ms[i]>> = log[n].object,
       CHOOSE j \in DOMAIN bs : <<bs[j]>> = log[n + 1].object>> :
        n \in {k \in 1..(Len(log) - 1) : log[k].op = "cut meteor"}}

\* The obstacles of ms that projectile j of bs touches.
Struck(ms, bs, j) == {i \in DOMAIN ms : HitsBullet(ms[i], bs[j])}

Least(a, b) == IF a < b THEN a ELSE b

\* C24, as stated, read for the passes in which no obstacle touches the
\* craft: a projectile that touches several obstacles is removed together
\* with the last-inserted of them, and the score rises by no more than the
\* smaller of the numbers of obstacles and projectiles the pass started with.
C24_AsStated ==
    [][lastOp' = "collide" /\ (\A i \in DOMAIN meteors : ~HitsCraft(meteors[i])) =>
          LET prs == Pairings(Walk(Len(meteors) - 1, player, meteors, bullets, <<>>).log,
                              meteors, bullets)
          IN  /\ \A j \in DOMAIN bullets :
                     Cardinality(Struck(meteors, bullets, j)) >= 2 =>
                         <<CHOOSE i \in Struck(meteors, bullets, j) :
                               \A k \in Struck(meteors, bullets, j) : k <= i, j>> \in prs
              /\ score' - score <= Least(Len(meteors), Len(bullets))]_vars

\* C24: a collision pass removes obstacles and projectiles in pairs that
\* touch, one point a pair, no obstacle and no projectile in two pairs, so a
\* projectile destroys at most one obstacle and the score rises by no more
\* than the smaller of the two numbers the pass started with.  The obstacle
\* a projectile goes with is the last-inserted one that touches it among
\* those not paired with a later-inserted projectile: every later-inserted
\* obstacle that touches it is paired with a later-inserted projectile.
C24_OnePerProjectile ==
    [][lastOp' = "collide" =>
          LET w == Walk(Len(meteors) - 1, player, meteors, bullets, <<>>)
              prs == Pairings(w.log, meteors, bullets)
          IN  /\ w.meteors = meteors'
              /\ w.bullets = bullets'
              /\ Cardinality(prs) = score' - score
              /\ Len(meteors) - Len(meteors') = score' - score
              /\ Len(bullets) - Len(bullets') = score' - score
              /\ score' - score <= Least(Len(meteors), Len(bullets))
              /\ \A pr \in prs :
                     /\ HitsBullet(meteors[pr[1]], bullets[pr[2]])
                     /\ ~Has(meteors', meteors[pr[1]])
                     /\ ~Has(bullets', bullets[pr[2]])
                     /\ \A other \in prs :
                            (other[1] = pr[1] \/ other[2] = pr[2]) => other = pr
                     /\ \A i \in Struck(meteors, bullets, pr[2]) :
                            i > pr[1] =>
                                \E other \in prs : other[1] = i /\ other[2] > pr[2]]_vars

\* A pass in which a projectile that touched two obstacles went with the
\* first-inserted of them, the last-inserted one having gone with a
\* later-inserted projectile: two obstacles and two projectiles removed,
\* two points.
C24_Witness ==
    /\ lastOp = "collide"
    /\ ~isGameOver
    /\ Len(AM) - Len(meteors) = 2
    /\ Len(AB) - Len(bullets) = 2
    /\ \E j \in DOMAIN AB : \E i \in Struck(AM, AB, j) : \E k \in Struck(AM, AB, j) :
          /\ i < k
          /\ ~Has(bullets, AB[j])
          /\ ~Has(meteors, AM[i])
          /\ ~Has(meteors, AM[k])
          /\ \E h \in DOMAIN AB : h > j /\ HitsBullet(AM[k], AB[h]) /\ ~Has(bullets, AB[h])
          /\ \A h \in DOMAIN AB : h # j => ~HitsBullet(AM[i], AB[h])
====
